---------------------------- MODULE Spec2Model ----------------------------
(***************************************************************************)
(* The audio transcription pipeline of the repository: one request (run)   *)
(* handled by one of the three transcription endpoints.                    *)
(*                                                                         *)
(*   "sizedur"  pages/api/history.js   lines 223-374  (JSON, size+duration)*)
(*   "sse"      pages/api/transcribe.js lines 37-151  (event stream)       *)
(*   "dur"      pages/api/transcribe.js lines 263-346 (JSON, duration only)*)
(*                                                                         *)
(* Every await of a provider call is split in a start and a return step;   *)
(* the other awaits of a handler are steps of their own where the          *)
(* environment (transcoding tool, provider, file system, store) can fail.  *)
(* Times are whole seconds, sizes are bytes, a text is a sequence of       *)
(* characters, a path is a pair <<name, index>>.                           *)
(*                                                                         *)
(* Spec is the run of one request, with the client that can abort it.      *)
(* SpecTwoRuns is two requests side by side, reduced to the temporary      *)
(* paths their handlers choose from Date.now() in the directory they       *)
(* share; there a path is <<name, index, millisecond>>.                    *)
(* SpecPage is the client page, pages/index.js: its state, the abort       *)
(* controller ref and the request that handleTranscribe awaits.            *)
(***************************************************************************)
EXTENDS Integers, Sequences, FiniteSets, TLC

(***************************************************************************)
(* Bounds of the model.                                                    *)
(***************************************************************************)
\* the longest plan explored, in chunks
MaxChunks == 3
\* the last millisecond of the clock explored
MaxNow == 1

(***************************************************************************)
(* Program constants.                                                      *)
(***************************************************************************)
MB == 1024 * 1024
\* history.js:59 and transcribe.js:30
MAX_FILE_SIZE == 25 * MB
\* history.js:60
MAX_DURATION == 5 * 60
\* history.js:61, 4.5 * 60
CHUNK_DURATION == 270
\* FORM_MAX_FILE_SIZE in decimal megabytes
FormMaxFileSizeDecimal == 100 * 1000 * 1000
\* formidable maxFileSize, history.js:235 and transcribe.js:52
FORM_MAX_FILE_SIZE == 100 * MB
\* transcribe.js:110, the chunk duration handed to splitAudioIntoChunksByDuration
SSE_CHUNK_DURATION == 9 * 60
\* transcribe.js:121, chunkTranscript.slice(-1000)
CONTEXT_CHARS == 1000
\* transcribe.js:282
DUR_MAX_DURATION == 1500
\* transcribe.js:283
DUR_CHUNK_DURATION == 1440

(***************************************************************************)
(* Inputs of the environment.                                              *)
(***************************************************************************)
Kinds == {"sizedur", "sse", "dur"}

\* what formidable reports as the size of the upload
UploadSizes == {1, 10 * MB, MAX_FILE_SIZE, MAX_FILE_SIZE + 1, FORM_MAX_FILE_SIZE,
                FORM_MAX_FILE_SIZE + 1, 120 * MB}

\* metadata.format.size of ffprobe; 0 stands for a missing field
ProbeSizes == {0, MAX_FILE_SIZE, MAX_FILE_SIZE + 1}

\* the size of the output of the compression pass
CompressedSizes == {1, MAX_FILE_SIZE, MAX_FILE_SIZE + 1}

\* metadata.format.duration of ffprobe for a chunk length c and a ceiling m;
\* 0 stands for a missing field where the code reads `duration || 0`
Durations(c, m) ==
    {d \in {0, 1, 180, m - 1, m, m + 1}
           \cup {k * c + e : k \in 1..MaxChunks, e \in {-1, 0, 1}} :
        d >= 0 /\ d <= MaxChunks * c}

\* texts a provider call can return
ProviderTexts == {<<>>, <<"a">>, <<"b", " ">>}

\* messages a provider, the transcoding tool or the file system can fail with
ErrorMessages == {<<"timeout">>}

Min(a, b) == IF a <= b THEN a ELSE b

\* Math.ceil(a / b) for a >= 0, b > 0
Ceil(a, b) == (a + b - 1) \div b

\* s.slice(-n)
slice(s, n) == IF Len(s) <= n THEN s ELSE SubSeq(s, Len(s) - n + 1, Len(s))

IsSpace(c) == c = " "

RECURSIVE trimStart(_)
trimStart(s) == IF s # <<>> /\ IsSpace(Head(s)) THEN trimStart(Tail(s)) ELSE s

RECURSIVE trimEnd(_)
trimEnd(s) ==
    IF s # <<>> /\ IsSpace(s[Len(s)]) THEN trimEnd(SubSeq(s, 1, Len(s) - 1)) ELSE s

\* String.prototype.trim
trim(s) == trimEnd(trimStart(s))

\* join that puts nothing between the texts
RECURSIVE joinNoSeparator(_)
joinNoSeparator(texts) ==
    IF texts = <<>> THEN <<>> ELSE texts[1] \o joinNoSeparator(Tail(texts))

\* Array.prototype.join(' ')
RECURSIVE join(_)
join(texts) ==
    IF texts = <<>> THEN <<>>
    ELSE IF Len(texts) = 1 THEN texts[1]
    ELSE texts[1] \o <<" ">> \o join(Tail(texts))

Range(s) == {s[j] : j \in 1..Len(s)}

(***************************************************************************)
(* Paths.                                                                  *)
(***************************************************************************)
UploadPath == <<"upload", 0>>
CompressedPath == <<"compressed", 0>>
ChunkDir == <<"chunks", 0>>
ChunkPath(k) == <<"chunk", k>>
NoPath == <<"none", 0>>

IsChunk(p) == p[1] = "chunk"

(***************************************************************************)
(* Messages of the errors the code builds.                                 *)
(***************************************************************************)
\* history.js:117
TranscribeFileError(m) == <<"Failed to transcribe file: ">> \o m
\* history.js:153
ChunkFFmpegError(k, m) == <<"FFmpeg error for chunk ", ToString(k), ": ">> \o m
\* history.js:80
ProbeError(m) == <<"ffprobe error: ">> \o m
\* history.js:325
Placeholder(m) == <<"[", "Error transcribing this chunk: ">> \o m \o <<"]">>
\* history.js:354, chunkPaths is declared by const inside the try block and
\* is not in scope in its finally block
ChunkPathsReferenceError == <<"chunkPaths is not defined">>
\* transcribe.js:164
TranscribeAudioError(m) == <<"Failed to transcribe audio: ">> \o m
\* transcribe.js:248, fs is fs.promises there and has no createReadStream
CreateReadStreamTypeError == <<"fs.createReadStream is not a function">>
\* history.js:235 and transcribe.js:52, the error of form.parse for an upload
\* over maxFileSize
MaxFileSizeError == <<"maxFileSize exceeded">>
\* transcribe.js:313
DurChunkFFmpegError(m) == <<"ffmpeg chunking error: ">> \o m

VARIABLES
    kind,           \* the endpoint that handles the request
    pc,             \* the position of the handler
    disk,           \* the temporary paths that exist
    fileSize,       \* the size of the upload, history.js:251, transcribe.js:75
    duration,       \* the probed duration
    actualSize,     \* history.js:257; transcribe.js:105 processedFileSize
    processedFilePath, \* transcribe.js:85
    tempFilePath,   \* the upload path once assigned, NoPath before
    tempDir,        \* the chunk directory path once assigned, NoPath before
    numChunks,      \* the number of chunks the splitter plans
    chunkPaths,     \* the chunk files created so far, in order
    i,              \* the loop index of the splitter, then of the transcriber
    transcriptions, \* history.js:307, the per-chunk results
    transcript,     \* transcribe.js:106
    prevText,       \* transcribe.js:112
    requests,       \* the time ranges asked of the transcoding tool
    calls,          \* the provider calls started, in order
    inflight,       \* the provider calls started and not yet returned
    sent,           \* what the handler has sent to the caller, in order
    ended,          \* the response is complete
    store,          \* the transcript records of the durable store
    deleteFailed,   \* the file system refused a deletion of this run
    outcomes,       \* how the provider calls ended, in order
    produced,       \* the transcript or the first error the run came to
    cancelled,      \* the client has aborted the request of this run
    now,            \* Date.now(), in milliseconds
    runs,           \* the requests in flight side by side: kind, step, paths
    tmp,            \* the temporary directory they share: path and writer
    upload,         \* the request of the run: the size of the file it carries
    page            \* the client page, index.js: its state, ref and request

\* the state outside the handler of the run
outside == <<cancelled, now, runs, tmp, upload, page>>

\* the state of the handler of the run
inside == <<kind, pc, disk, fileSize, duration, actualSize, processedFilePath,
            tempFilePath, tempDir, numChunks, chunkPaths, i, transcriptions,
            transcript, prevText, requests, calls, inflight, sent, ended, store,
            deleteFailed, outcomes, produced>>

vars == <<inside, outside>>

(***************************************************************************)
(* What the caller receives.                                               *)
(***************************************************************************)
Event(type, status, num, den, text, msg, chunks, chunksNull) ==
    [type |-> type, status |-> status, num |-> num, den |-> den, text |-> text,
     msg |-> msg, chunks |-> chunks, chunksNull |-> chunksNull]

\* a JSON error body {error, details}: msg is details when there are any
ErrorBody(status, error, details) ==
    Event("error", status, 0, 1, <<>>, IF details = <<>> THEN error ELSE details,
          <<>>, TRUE)

\* ResultBody that strips the white space at the ends of the transcript
ResultBodyTrimmed(text, chunks, chunksNull) ==
    Event("result", 200, 0, 1, trim(text), <<>>, chunks, chunksNull)

\* history.js:281-287 and 344-350, transcribe.js:332
ResultBody(text, chunks, chunksNull) ==
    Event("result", 200, 0, 1, text, <<>>, chunks, chunksNull)

\* sendSSEMessage(res, {progress, message}); the percentage is num / den
ProgressEvent(num, den) == Event("progress", 0, num, den, <<>>, <<>>, <<>>, TRUE)

\* sendSSEMessage(res, {error})
ErrorEvent(m) == Event("error", 0, 0, 1, <<>>, m, <<>>, TRUE)

\* sendSSEMessage(res, {progress: 100, transcript, message})
FinalEvent(text) == Event("result", 0, 100, 1, text, <<>>, <<>>, TRUE)

\* sendSSEMessage(res, '[DONE]')
DoneEvent == Event("done", 0, 0, 1, <<>>, <<>>, <<>>, TRUE)

\* res.status(n).json(body): the body goes out when nothing was sent before;
\* on a response already sent, setting the header throws and nothing goes out
json(s, body) == IF s = <<>> THEN Append(s, body) ELSE s

\* cleanupFiles(filePaths, dirPath): every unlink and the rmdir are tried, a
\* failure is logged; `fails` are the paths the file system refuses to delete
cleanupFiles(d, filePaths, dirPath, fails) ==
    LET afterFiles == d \ {p \in Range(filePaths) : p \notin fails}
    IN  IF /\ dirPath # NoPath
           /\ dirPath \in afterFiles
           /\ dirPath \notin fails
           /\ ~\E p \in afterFiles : IsChunk(p)
        THEN afterFiles \ {dirPath}
        ELSE afterFiles

\* the finally block of the chunked branch, history.js:352-355: the argument
\* [tempFilePath, ...chunkPaths] cannot be evaluated, cleanupFiles is not
\* called, and the ReferenceError replaces a pending error or return
ChunkedFinally(d) == [disk |-> d, thrown |-> ChunkPathsReferenceError]

\* the catch block of the handler, history.js:358-373, on the disk
HistCatchDisk(d, tf, td, fails) ==
    LET d1 == IF tf # NoPath THEN cleanupFiles(d, <<tf>>, NoPath, fails) ELSE d
    IN  IF td # NoPath THEN cleanupFiles(d1, <<>>, td, fails) ELSE d1

\* the catch block of the handler, history.js:369-372, on the response
HistCatchSent(s, m) == json(s, ErrorBody(500, <<"Transcription failed">>, m))

\* saveTranscription that repeats the insert
saveTranscriptionTwice(st, filename, text, ok) ==
    IF ok THEN st \o <<[filename |-> filename, transcript |-> text],
                       [filename |-> filename, transcript |-> text]>>
    ELSE st

\* saveTranscription: one insert, or a throw that the handler logs
saveTranscription(st, filename, text, ok) ==
    IF ok THEN Append(st, [filename |-> filename, transcript |-> text]) ELSE st

\* history.js:129, the number of chunks of a plan
NumChunks(d, c) == Ceil(d, c)

\* history.js:134
ChunkStart(k, c) == k * c

\* ChunkEnd without the clamp to the duration
ChunkEndUnclamped(k, c, d) == (k + 1) * c

\* history.js:135
ChunkEnd(k, c, d) == Min((k + 1) * c, d)

\* how one provider call ended: text is the text returned or the message
Outcome(seg, ok, text) == [seg |-> seg, ok |-> ok, text |-> text]

\* what a run has come to before it responds and cleans up
Nothing == [type |-> "none", text |-> <<>>]
Transcribed(t) == [type |-> "result", text |-> t]
Thrown(m) == [type |-> "error", text |-> m]

\* one invocation of the transcoding tool for a time range
Request(start, len, path) == [start |-> start, len |-> len, path |-> path]

\* one provider call: seg is the chunk index, -1 for the whole file
Call(seg, path, prompt) == [seg |-> seg, path |-> path, prompt |-> prompt]

\* history.js:313-318 and 321-326, one entry of the per-chunk result list
ChunkResult(k, d, text) ==
    [chunk |-> k + 1,
     startTime |-> ChunkStart(k, CHUNK_DURATION),
     endTime |-> ChunkEnd(k, CHUNK_DURATION, d),
     transcription |-> text]

\* index.js:30-42, the page as mounted.  request is the await at which
\* handleTranscribe stands ("aborted": its promise was rejected by an abort
\* and the catch block is the next microtask); byReset tells that the abort
\* came from handleReset
Mounted ==
    [file |-> FALSE, isTranscribing |-> FALSE, progress |-> 0,
     transcript |-> <<>>, error |-> <<>>, abortControllerRef |-> "null",
     request |-> "none", byReset |-> FALSE]

\* index.js:240, the message of the catch block for an AbortError
CancelledMessage == <<"Transcription was cancelled">>
\* index.js:215
HttpErrorMessage == <<"HTTP error! status: 500">>

\* the requests handled side by side
Runs == {1, 2}

\* a request that has not arrived: n counts the chunk files created
Idle == [kind |-> "none", step |-> "idle", n |-> 0, dir |-> NoPath, paths |-> {}]

\* transcribe.js:87, path.join('/tmp', `compressed_${Date.now()}.mp3`)
CompressedName(t) == <<"compressed", 0, t>>
\* transcribe.js:182, path.join('/tmp', `chunk_${currentChunk}_${Date.now()}.mp3`)
SseChunkName(k, t) == <<"chunk", k, t>>
\* history.js:297, chunks_${Date.now()} in the directory of the uploads
ChunkDirName(t) == <<"chunks", 0, t>>
\* history.js:133, path.join(outputDir, `chunk_${i}.wav`)
DirChunkName(dir, k) == <<"chunks/chunk", k, dir[3]>>

\* a file written at path p by run r replaces what was there
WriteFile(t, p, r) == {e \in t : e.path # p} \cup {[path |-> p, by |-> r]}

\* mkdir(p, {recursive: true}) by run r: a directory that exists is kept
MakeDir(t, p, r) ==
    IF \E e \in t : e.path = p THEN t ELSE t \cup {[path |-> p, by |-> r]}

\* unlink and rmdir go by path, whoever wrote there
Remove(t, ps) == {e \in t : e.path \notin ps}

Init ==
    /\ kind \in Kinds
    /\ pc = "start"
    /\ disk = {}
    /\ fileSize = 0
    /\ duration = 0
    /\ actualSize = 0
    /\ processedFilePath = NoPath
    /\ tempFilePath = NoPath
    /\ tempDir = NoPath
    /\ numChunks = 0
    /\ chunkPaths = <<>>
    /\ i = 0
    /\ transcriptions = <<>>
    /\ transcript = <<>>
    /\ prevText = <<>>
    /\ requests = <<>>
    /\ calls = <<>>
    /\ inflight = {}
    /\ sent = <<>>
    /\ ended = FALSE
    /\ store = <<>>
    /\ deleteFailed = FALSE
    /\ outcomes = <<>>
    /\ produced = Nothing
    /\ cancelled = FALSE
    /\ now = 0
    /\ runs = [r \in Runs |-> Idle]
    /\ tmp = {}
    /\ upload \in [size : UploadSizes]
    /\ page = Mounted

(***************************************************************************)
(* The size+duration handler, history.js:223-374.                          *)
(***************************************************************************)

\* IsDirect with exclusive ceilings
IsDirectStrict(size, d) == size < MAX_FILE_SIZE /\ d < MAX_DURATION

\* history.js:262-265: the test of the direct branch
IsDirect(size, d) == size <= MAX_FILE_SIZE /\ d <= MAX_DURATION

\* history.js:224-253: method and key checks, form.parse, the upload
HistParse ==
    /\ kind = "sizedur" /\ pc = "start"
    /\ \E req \in {"badmethod", "nokey", "parseerror", "nofile", "ok"} :
         \E m \in ErrorMessages :
         LET size == upload.size
         IN
           CASE req = "badmethod" ->
                  /\ sent' = json(sent, ErrorBody(405, <<"Method not allowed">>, <<>>))
                  /\ produced' = Thrown(<<"Method not allowed">>)
                  /\ pc' = "done" /\ ended' = TRUE
                  /\ UNCHANGED <<disk, fileSize, tempFilePath>>
             [] req = "nokey" ->
                  /\ sent' = json(sent, ErrorBody(500, <<"OpenAI API key not configured">>, <<>>))
                  /\ produced' = Thrown(<<"OpenAI API key not configured">>)
                  /\ pc' = "done" /\ ended' = TRUE
                  /\ UNCHANGED <<disk, fileSize, tempFilePath>>
             [] req = "parseerror" \/ (req = "ok" /\ size > FORM_MAX_FILE_SIZE) ->
                  \* formidable reports an error, also for an upload over maxFileSize
                  /\ LET e == IF req = "ok" THEN MaxFileSizeError ELSE m
                     IN  /\ sent' = HistCatchSent(sent, e)
                         /\ produced' = Thrown(e)
                  /\ pc' = "done" /\ ended' = TRUE
                  /\ UNCHANGED <<disk, fileSize, tempFilePath>>
             [] req = "nofile" ->
                  /\ sent' = json(sent, ErrorBody(400, <<"No audio file uploaded. Please provide an audio file.">>, <<>>))
                  /\ produced' = Thrown(<<"No audio file uploaded. Please provide an audio file.">>)
                  /\ pc' = "done" /\ ended' = TRUE
                  /\ UNCHANGED <<disk, fileSize, tempFilePath>>
             [] req = "ok" /\ size <= FORM_MAX_FILE_SIZE ->
                  /\ disk' = disk \cup {UploadPath}
                  /\ tempFilePath' = UploadPath
                  /\ fileSize' = size
                  /\ pc' = "probe"
                  /\ UNCHANGED <<sent, ended, produced>>
    /\ UNCHANGED <<kind, outside, duration, actualSize, processedFilePath, tempDir,
                   numChunks, chunkPaths, i, transcriptions, transcript,
                   prevText, requests, calls, inflight, store, deleteFailed,
                   outcomes>>

\* HistProbe that answers a failed probe with an empty transcript
HistProbeAnswersEmpty ==
    /\ kind = "sizedur" /\ pc = "probe"
    /\ \/ \E m \in ErrorMessages, fails \in SUBSET {tempFilePath} :
            /\ disk' = HistCatchDisk(disk, tempFilePath, tempDir, fails)
            /\ deleteFailed' = (deleteFailed \/ fails # {})
            /\ sent' = json(sent, ResultBody(<<>>, <<>>, TRUE))
            /\ produced' = Thrown(ProbeError(m))
            /\ pc' = "done" /\ ended' = TRUE
            /\ UNCHANGED <<duration, actualSize>>
       \/ \E d \in Durations(CHUNK_DURATION, MAX_DURATION), size \in ProbeSizes :
            LET actual == IF size # 0 THEN size ELSE fileSize
            IN  /\ duration' = d
                /\ actualSize' = actual
                /\ pc' = IF IsDirect(actual, d) THEN "direct" ELSE "mkdir"
                /\ UNCHANGED <<disk, deleteFailed, sent, ended, produced>>
    /\ UNCHANGED <<kind, outside, fileSize, processedFilePath, tempFilePath, tempDir,
                   numChunks, chunkPaths, i, transcriptions, transcript,
                   prevText, requests, calls, inflight, store, outcomes>>

\* history.js:256-265: getAudioInfo and the choice of the branch
HistProbe ==
    /\ kind = "sizedur" /\ pc = "probe"
    /\ \/ \E m \in ErrorMessages, fails \in SUBSET {tempFilePath} :
            \* ffprobe fails or returns no metadata: the catch block
            /\ disk' = HistCatchDisk(disk, tempFilePath, tempDir, fails)
            /\ deleteFailed' = (deleteFailed \/ fails # {})
            /\ sent' = HistCatchSent(sent, ProbeError(m))
            /\ produced' = Thrown(ProbeError(m))
            /\ pc' = "done" /\ ended' = TRUE
            /\ UNCHANGED <<duration, actualSize>>
       \/ \E d \in Durations(CHUNK_DURATION, MAX_DURATION), size \in ProbeSizes :
            LET actual == IF size # 0 THEN size ELSE fileSize
            IN  /\ duration' = d
                /\ actualSize' = actual
                /\ pc' = IF IsDirect(actual, d) THEN "direct" ELSE "mkdir"
                /\ UNCHANGED <<disk, deleteFailed, sent, ended, produced>>
    /\ UNCHANGED <<kind, outside, fileSize, processedFilePath, tempFilePath, tempDir,
                   numChunks, chunkPaths, i, transcriptions, transcript,
                   prevText, requests, calls, inflight, store, outcomes>>

\* history.js:270 and 99-112: transcribeFile(tempFilePath) starts
HistDirectCall ==
    /\ kind = "sizedur" /\ pc = "direct"
    /\ calls' = Append(calls, Call(-1, tempFilePath, <<>>))
    /\ inflight' = inflight \cup {-1}
    /\ pc' = "direct_wait"
    /\ UNCHANGED <<kind, outside, disk, fileSize, duration, actualSize, processedFilePath,
                   tempFilePath, tempDir, numChunks, chunkPaths, i,
                   transcriptions, transcript, prevText, requests, sent, ended,
                   store, deleteFailed, outcomes, produced>>

\* HistDirectReturn that answers a failed call the way the chunk loop does
HistDirectReturnTolerant ==
    /\ kind = "sizedur" /\ pc = "direct_wait"
    /\ inflight' = inflight \ {-1}
    /\ \/ \E t \in ProviderTexts, saved \in BOOLEAN, fails \in SUBSET {tempFilePath} :
            /\ outcomes' = Append(outcomes, Outcome(-1, TRUE, t))
            /\ produced' = Transcribed(t)
            /\ store' = saveTranscription(store, "audio", t, saved)
            /\ sent' = json(sent, ResultBody(t, <<>>, TRUE))
            /\ disk' = cleanupFiles(disk, <<tempFilePath>>, NoPath, fails)
            /\ deleteFailed' = (deleteFailed \/ fails # {})
       \/ \E m \in ErrorMessages, saved \in BOOLEAN, fails \in SUBSET {tempFilePath} :
            LET t == Placeholder(TranscribeFileError(m))
            IN  /\ outcomes' = Append(outcomes, Outcome(-1, FALSE, m))
                /\ produced' = Transcribed(t)
                /\ store' = saveTranscription(store, "audio", t, saved)
                /\ sent' = json(sent, ResultBody(t, <<>>, TRUE))
                /\ disk' = cleanupFiles(disk, <<tempFilePath>>, NoPath, fails)
                /\ deleteFailed' = (deleteFailed \/ fails # {})
    /\ pc' = "done" /\ ended' = TRUE
    /\ UNCHANGED <<kind, outside, fileSize, duration, actualSize, processedFilePath,
                   tempFilePath, tempDir, numChunks, chunkPaths, i,
                   transcriptions, transcript, prevText, requests, calls>>

\* history.js:270-291 and 358-373: the call returns or throws; save, respond,
\* the finally block of the direct branch and, on a throw, the catch block
HistDirectReturn ==
    /\ kind = "sizedur" /\ pc = "direct_wait"
    /\ inflight' = inflight \ {-1}
    /\ \/ \E t \in ProviderTexts, saved \in BOOLEAN, fails \in SUBSET {tempFilePath} :
            /\ outcomes' = Append(outcomes, Outcome(-1, TRUE, t))
            /\ produced' = Transcribed(t)
            /\ store' = saveTranscription(store, "audio", t, saved)
            /\ sent' = json(sent, ResultBody(t, <<>>, TRUE))
            /\ disk' = cleanupFiles(disk, <<tempFilePath>>, NoPath, fails)
            /\ deleteFailed' = (deleteFailed \/ fails # {})
       \/ \E m \in ErrorMessages, fails \in SUBSET {tempFilePath} :
            /\ outcomes' = Append(outcomes, Outcome(-1, FALSE, m))
            /\ produced' = Thrown(TranscribeFileError(m))
            /\ disk' = HistCatchDisk(cleanupFiles(disk, <<tempFilePath>>, NoPath, fails),
                                     tempFilePath, tempDir, fails)
            /\ deleteFailed' = (deleteFailed \/ fails # {})
            /\ sent' = HistCatchSent(sent, TranscribeFileError(m))
            /\ UNCHANGED store
    /\ pc' = "done" /\ ended' = TRUE
    /\ UNCHANGED <<kind, outside, fileSize, duration, actualSize, processedFilePath,
                   tempFilePath, tempDir, numChunks, chunkPaths, i,
                   transcriptions, transcript, prevText, requests, calls>>

\* history.js:297-298, then 129: the chunk directory and the plan
HistMkdir ==
    /\ kind = "sizedur" /\ pc = "mkdir"
    /\ tempDir' = ChunkDir
    /\ \/ /\ disk' = disk \cup {ChunkDir}
          /\ numChunks' = NumChunks(duration, CHUNK_DURATION)
          /\ pc' = IF numChunks' = 0 THEN "finish" ELSE "split"
          /\ UNCHANGED <<sent, ended, deleteFailed, produced>>
       \/ \E m \in ErrorMessages, fails \in SUBSET {tempFilePath} :
            \* mkdir throws outside the inner try: the catch block
            /\ disk' = HistCatchDisk(disk, tempFilePath, ChunkDir, fails)
            /\ deleteFailed' = (deleteFailed \/ fails # {})
            /\ sent' = HistCatchSent(sent, m)
            /\ produced' = Thrown(m)
            /\ pc' = "done" /\ ended' = TRUE
            /\ UNCHANGED numChunks
    /\ UNCHANGED <<kind, outside, fileSize, duration, actualSize, processedFilePath,
                   tempFilePath, chunkPaths, i, transcriptions, transcript,
                   prevText, requests, calls, inflight, store, outcomes>>

\* history.js:132-157: one iteration of the loop of splitAudioIntoChunks; on
\* an error of the tool the finally block and the catch block of the handler
HistSplitChunk ==
    /\ kind = "sizedur" /\ pc = "split" /\ i < numChunks
    /\ LET startTime == ChunkStart(i, CHUNK_DURATION)
           endTime == ChunkEnd(i, CHUNK_DURATION, duration)
       IN  requests' = Append(requests, Request(startTime, endTime - startTime, ChunkPath(i)))
    /\ \/ /\ disk' = disk \cup {ChunkPath(i)}
          /\ chunkPaths' = Append(chunkPaths, ChunkPath(i))
          /\ i' = IF i + 1 < numChunks THEN i + 1 ELSE 0
          /\ pc' = IF i + 1 < numChunks THEN "split" ELSE "transcribe"
          /\ UNCHANGED <<sent, ended, deleteFailed, produced>>
       \/ \E m \in ErrorMessages, fails \in SUBSET {tempFilePath, tempDir} :
            LET fin == ChunkedFinally(disk)
            IN  /\ disk' = HistCatchDisk(fin.disk, tempFilePath, tempDir, fails)
                /\ deleteFailed' = (deleteFailed \/ fails # {})
                /\ sent' = HistCatchSent(sent, fin.thrown)
                /\ produced' = Thrown(ChunkFFmpegError(i, m))
                /\ pc' = "done" /\ ended' = TRUE
                /\ UNCHANGED <<chunkPaths, i>>
    /\ UNCHANGED <<kind, outside, fileSize, duration, actualSize, processedFilePath,
                   tempFilePath, tempDir, numChunks, transcriptions, transcript,
                   prevText, calls, inflight, store, outcomes>>

\* HistChunkCall without the await: the loop goes on while the call runs
HistChunkCallNoAwait ==
    /\ kind = "sizedur" /\ pc = "transcribe" /\ i < Len(chunkPaths)
    /\ calls' = Append(calls, Call(i, chunkPaths[i + 1], <<>>))
    /\ inflight' = inflight \cup {i}
    /\ i' = IF i + 1 < Len(chunkPaths) THEN i + 1 ELSE i
    /\ pc' = IF i + 1 < Len(chunkPaths) THEN "transcribe" ELSE "chunk_wait"
    /\ UNCHANGED <<kind, outside, disk, fileSize, duration, actualSize, processedFilePath,
                   tempFilePath, tempDir, numChunks, chunkPaths,
                   transcriptions, transcript, prevText, requests, sent, ended,
                   store, deleteFailed, outcomes, produced>>

\* history.js:308-312: transcribeFile(chunkPaths[i]) starts
HistChunkCall ==
    /\ kind = "sizedur" /\ pc = "transcribe" /\ i < Len(chunkPaths)
    /\ calls' = Append(calls, Call(i, chunkPaths[i + 1], <<>>))
    /\ inflight' = inflight \cup {i}
    /\ pc' = "chunk_wait"
    /\ UNCHANGED <<kind, outside, disk, fileSize, duration, actualSize, processedFilePath,
                   tempFilePath, tempDir, numChunks, chunkPaths, i,
                   transcriptions, transcript, prevText, requests, sent, ended,
                   store, deleteFailed, outcomes, produced>>

\* HistChunkReturn that drops the chunk whose call failed
HistChunkReturnDropsFailed ==
    /\ kind = "sizedur" /\ pc = "chunk_wait"
    /\ inflight' = inflight \ {i}
    /\ \/ \E t \in ProviderTexts :
            /\ outcomes' = Append(outcomes, Outcome(i, TRUE, t))
            /\ transcriptions' = Append(transcriptions, ChunkResult(i, duration, t))
       \/ \E m \in ErrorMessages :
            /\ outcomes' = Append(outcomes, Outcome(i, FALSE, m))
            /\ UNCHANGED transcriptions
    /\ i' = i + 1
    /\ pc' = IF i + 1 < Len(chunkPaths) THEN "transcribe" ELSE "finish"
    /\ UNCHANGED <<kind, outside, disk, fileSize, duration, actualSize, processedFilePath,
                   tempFilePath, tempDir, numChunks, chunkPaths, transcript,
                   prevText, requests, calls, sent, ended, store, deleteFailed,
                   produced>>

\* history.js:312-328: the call returns a text or throws; either way one
\* entry is pushed and the loop goes on
HistChunkReturn ==
    /\ kind = "sizedur" /\ pc = "chunk_wait"
    /\ inflight' = inflight \ {i}
    /\ \/ \E t \in ProviderTexts :
            /\ outcomes' = Append(outcomes, Outcome(i, TRUE, t))
            /\ transcriptions' = Append(transcriptions, ChunkResult(i, duration, t))
       \/ \E m \in ErrorMessages :
            /\ outcomes' = Append(outcomes, Outcome(i, FALSE, m))
            /\ transcriptions' = Append(transcriptions,
                   ChunkResult(i, duration, Placeholder(TranscribeFileError(m))))
    /\ i' = i + 1
    /\ pc' = IF i + 1 < Len(chunkPaths) THEN "transcribe" ELSE "finish"
    /\ UNCHANGED <<kind, outside, disk, fileSize, duration, actualSize, processedFilePath,
                   tempFilePath, tempDir, numChunks, chunkPaths, transcript,
                   prevText, requests, calls, sent, ended, store, deleteFailed,
                   produced>>

\* HistFinish where a failed save is thrown instead of logged: the response
\* is the 500 of the catch block
HistFinishSaveThrows ==
    /\ kind = "sizedur" /\ pc = "finish"
    /\ \E saved \in BOOLEAN, fails \in SUBSET {tempFilePath, tempDir} :
         LET texts == [j \in 1..Len(transcriptions) |-> transcriptions[j].transcription]
             fullTranscription == join(texts)
             responded == IF saved
                          THEN json(sent, ResultBody(fullTranscription, transcriptions, FALSE))
                          ELSE sent
             fin == ChunkedFinally(disk)
         IN  /\ transcript' = fullTranscription
             /\ produced' = Transcribed(fullTranscription)
             /\ store' = saveTranscription(store, "audio", fullTranscription, saved)
             /\ sent' = HistCatchSent(responded, fin.thrown)
             /\ disk' = HistCatchDisk(fin.disk, tempFilePath, tempDir, fails)
             /\ deleteFailed' = (deleteFailed \/ fails # {})
    /\ pc' = "done" /\ ended' = TRUE
    /\ UNCHANGED <<kind, outside, fileSize, duration, actualSize, processedFilePath,
                   tempFilePath, tempDir, numChunks, chunkPaths, i,
                   transcriptions, prevText, requests, calls, inflight,
                   outcomes>>

\* history.js:330-355 and 358-373: join, save, respond, then the finally
\* block, whose ReferenceError reaches the catch block of the handler
HistFinish ==
    /\ kind = "sizedur" /\ pc = "finish"
    /\ \E saved \in BOOLEAN, fails \in SUBSET {tempFilePath, tempDir} :
         LET texts == [j \in 1..Len(transcriptions) |-> transcriptions[j].transcription]
             fullTranscription == join(texts)
             responded == json(sent, ResultBody(fullTranscription, transcriptions, FALSE))
             fin == ChunkedFinally(disk)
         IN  /\ transcript' = fullTranscription
             /\ produced' = Transcribed(fullTranscription)
             /\ store' = saveTranscription(store, "audio", fullTranscription, saved)
             /\ sent' = HistCatchSent(responded, fin.thrown)
             /\ disk' = HistCatchDisk(fin.disk, tempFilePath, tempDir, fails)
             /\ deleteFailed' = (deleteFailed \/ fails # {})
    /\ pc' = "done" /\ ended' = TRUE
    /\ UNCHANGED <<kind, outside, fileSize, duration, actualSize, processedFilePath,
                   tempFilePath, tempDir, numChunks, chunkPaths, i,
                   transcriptions, prevText, requests, calls, inflight,
                   outcomes>>

(***************************************************************************)
(* The event-stream handler, transcribe.js:37-151.                         *)
(***************************************************************************)

\* metadata.format.duration is missing: Math.ceil(undefined / c) is NaN
Undefined == -1
NaN == -1

\* transcribe.js:173
SseNumChunks(d, c) == IF d = Undefined THEN NaN ELSE Ceil(d, c)

\* transcribe.js:177, currentChunk >= numChunks; false when numChunks is NaN
SplitDone(currentChunk, n) == n # NaN /\ currentChunk >= n

\* transcribe.js:145-147, the catch block
SseCatch(s, m) == Append(s, ErrorEvent(m))

\* SseBranchPc that decides on the size of the upload
SseBranchPcOnUpload(size) == IF upload.size > MAX_FILE_SIZE THEN "s_probe" ELSE "s_direct"

\* SseBranchPc with the chunked branch switched off
SseBranchPcAlwaysDirect(size) == "s_direct"

\* transcribe.js:105-111 and 125: the branch on the size of the processed file
SseBranchPc(size) == IF size > MAX_FILE_SIZE THEN "s_probe" ELSE "s_direct"

\* transcribe.js:109, the progress event of the chunked branch
SseBranchSent(s, size) ==
    IF size > MAX_FILE_SIZE THEN Append(s, ProgressEvent(50, 1)) ELSE s

\* transcribe.js:38-102: method check, form.parse, the size checks
SseParse ==
    /\ kind = "sse" /\ pc = "start"
    /\ \E req \in {"badmethod", "parseerror", "nofile", "ok"} :
         \E m \in ErrorMessages :
         LET size == upload.size
         IN
           CASE req = "badmethod" ->
                  /\ sent' = json(sent, ErrorBody(405, <<"Method not allowed">>, <<>>))
                  /\ produced' = Thrown(<<"Method not allowed">>)
                  /\ pc' = "done" /\ ended' = TRUE
                  /\ UNCHANGED <<disk, fileSize, actualSize, processedFilePath, tempFilePath>>
             [] req = "parseerror" \/ (req = "ok" /\ size > FORM_MAX_FILE_SIZE) ->
                  \* formidable reports an error, also for an upload over maxFileSize
                  /\ LET e == IF req = "ok" THEN MaxFileSizeError ELSE m
                     IN  /\ sent' = SseCatch(sent, e)
                         /\ produced' = Thrown(e)
                  /\ pc' = "done" /\ ended' = TRUE
                  /\ UNCHANGED <<disk, fileSize, actualSize, processedFilePath, tempFilePath>>
             [] req = "nofile" ->
                  /\ sent' = Append(sent, ErrorEvent(<<"No file uploaded">>))
                  /\ produced' = Thrown(<<"No file uploaded">>)
                  /\ pc' = "done" /\ ended' = TRUE
                  /\ UNCHANGED <<disk, fileSize, actualSize, processedFilePath, tempFilePath>>
             [] req = "ok" /\ size <= FORM_MAX_FILE_SIZE ->
                  /\ disk' = disk \cup {UploadPath}
                  /\ tempFilePath' = UploadPath
                  /\ fileSize' = size
                  /\ IF size > MAX_FILE_SIZE * 4
                     THEN /\ sent' = sent \o <<ProgressEvent(10, 1),
                                               ErrorEvent(<<"File too large (max 100MB)">>)>>
                          /\ produced' = Thrown(<<"File too large (max 100MB)">>)
                          /\ pc' = "done" /\ ended' = TRUE
                          /\ UNCHANGED <<actualSize, processedFilePath>>
                     ELSE IF size > MAX_FILE_SIZE
                     THEN /\ sent' = sent \o <<ProgressEvent(10, 1), ProgressEvent(20, 1)>>
                          /\ processedFilePath' = UploadPath
                          /\ pc' = "compress"
                          /\ UNCHANGED <<actualSize, ended, produced>>
                     ELSE /\ sent' = SseBranchSent(
                                sent \o <<ProgressEvent(10, 1), ProgressEvent(20, 1)>>, size)
                          /\ processedFilePath' = UploadPath
                          /\ actualSize' = size
                          /\ pc' = SseBranchPc(size)
                          /\ UNCHANGED <<ended, produced>>
    /\ UNCHANGED <<kind, outside, duration, tempDir, numChunks, chunkPaths, i,
                   transcriptions, transcript, prevText, requests, calls,
                   inflight, store, deleteFailed, outcomes>>

\* transcribe.js:86-111: the compression pass, then the branch on the size
\* of its output
SseCompress ==
    /\ kind = "sse" /\ pc = "compress"
    /\ \/ \E size \in CompressedSizes :
            /\ disk' = disk \cup {CompressedPath}
            /\ processedFilePath' = CompressedPath
            /\ actualSize' = size
            /\ sent' = SseBranchSent(Append(sent, ProgressEvent(40, 1)), size)
            /\ pc' = SseBranchPc(size)
            /\ UNCHANGED <<ended, produced>>
       \/ \E m \in ErrorMessages :
            /\ sent' = SseCatch(sent, m)
            /\ produced' = Thrown(m)
            /\ pc' = "done" /\ ended' = TRUE
            /\ UNCHANGED <<disk, processedFilePath, actualSize>>
    /\ UNCHANGED <<kind, outside, fileSize, duration, tempFilePath, tempDir, numChunks,
                   chunkPaths, i, transcriptions, transcript, prevText,
                   requests, calls, inflight, store, deleteFailed, outcomes>>

\* transcribe.js:170-179: ffprobe of splitAudioIntoChunksByDuration and the
\* first test of processChunk
SseProbe ==
    /\ kind = "sse" /\ pc = "s_probe"
    /\ \/ \E d \in Durations(SSE_CHUNK_DURATION, SSE_CHUNK_DURATION) \cup {Undefined} :
            LET n == SseNumChunks(d, SSE_CHUNK_DURATION)
            IN  /\ duration' = d
                /\ numChunks' = n
                /\ IF SplitDone(0, n)
                   THEN /\ sent' = Append(sent, ProgressEvent(60, 1))
                        /\ produced' = Transcribed(trim(transcript))
                        /\ pc' = "s_final"
                   ELSE /\ pc' = "s_split"
                        /\ UNCHANGED <<sent, produced>>
                /\ UNCHANGED ended
       \/ \E m \in ErrorMessages :
            /\ sent' = SseCatch(sent, m)
            /\ produced' = Thrown(m)
            /\ pc' = "done" /\ ended' = TRUE
            /\ UNCHANGED <<duration, numChunks>>
    /\ UNCHANGED <<kind, outside, disk, fileSize, actualSize, processedFilePath,
                   tempFilePath, tempDir, chunkPaths, i, transcriptions,
                   transcript, prevText, requests, calls, inflight, store,
                   deleteFailed, outcomes>>

\* transcribe.js:176-197 and 111: one run of processChunk; the counter is
\* capped at MaxChunks for a plan that never ends
SseSplitChunk ==
    /\ kind = "sse" /\ pc = "s_split" /\ ~SplitDone(i, numChunks) /\ i <= MaxChunks
    /\ requests' = Append(requests,
           Request(ChunkStart(i, SSE_CHUNK_DURATION), SSE_CHUNK_DURATION, ChunkPath(i)))
    /\ \/ /\ disk' = disk \cup {ChunkPath(i)}
          /\ chunkPaths' = Append(chunkPaths, ChunkPath(i))
          /\ IF SplitDone(i + 1, numChunks)
             THEN /\ sent' = Append(sent, ProgressEvent(60, 1))
                  /\ i' = 0
                  /\ pc' = "s_loop"
             ELSE /\ i' = i + 1
                  /\ UNCHANGED <<sent, pc>>
          /\ UNCHANGED <<ended, produced>>
       \/ \E m \in ErrorMessages :
            /\ sent' = SseCatch(sent, m)
            /\ produced' = Thrown(m)
            /\ pc' = "done" /\ ended' = TRUE
            /\ UNCHANGED <<disk, chunkPaths, i>>
    /\ UNCHANGED <<kind, outside, fileSize, duration, actualSize, processedFilePath,
                   tempFilePath, tempDir, numChunks, transcriptions, transcript,
                   prevText, calls, inflight, store, deleteFailed, outcomes>>

\* SseChunkCall whose progress counts the chunk as done and spreads 40 points
SseChunkCallProgressAhead ==
    /\ kind = "sse" /\ pc = "s_loop" /\ i < Len(chunkPaths)
    /\ sent' = Append(sent, ProgressEvent(60 * Len(chunkPaths) + 40 * (i + 1), Len(chunkPaths)))
    /\ calls' = Append(calls, Call(i, chunkPaths[i + 1], prevText))
    /\ inflight' = inflight \cup {i}
    /\ pc' = "s_chunk_wait"
    /\ UNCHANGED <<kind, outside, disk, fileSize, duration, actualSize, processedFilePath,
                   tempFilePath, tempDir, numChunks, chunkPaths, i,
                   transcriptions, transcript, prevText, requests, ended,
                   store, deleteFailed, outcomes, produced>>

\* transcribe.js:113-119: the progress event of chunk i and the start of
\* transcribeAudio(chunkPath, prevText)
SseChunkCall ==
    /\ kind = "sse" /\ pc = "s_loop" /\ i < Len(chunkPaths)
    /\ sent' = Append(sent, ProgressEvent(60 * Len(chunkPaths) + 30 * i, Len(chunkPaths)))
    /\ calls' = Append(calls, Call(i, chunkPaths[i + 1], prevText))
    /\ inflight' = inflight \cup {i}
    /\ pc' = "s_chunk_wait"
    /\ UNCHANGED <<kind, outside, disk, fileSize, duration, actualSize, processedFilePath,
                   tempFilePath, tempDir, numChunks, chunkPaths, i,
                   transcriptions, transcript, prevText, requests, ended,
                   store, deleteFailed, outcomes, produced>>

\* transcribe.js:119-123 and 145-150: the call returns or throws
SseChunkReturn ==
    /\ kind = "sse" /\ pc = "s_chunk_wait"
    /\ inflight' = inflight \ {i}
    /\ \/ \E t \in ProviderTexts, fails \in SUBSET {chunkPaths[i + 1]}, m \in ErrorMessages :
            /\ outcomes' = Append(outcomes, Outcome(i, TRUE, t))
            /\ transcript' = transcript \o t \o <<" ">>
            /\ prevText' = slice(t, CONTEXT_CHARS)
            /\ deleteFailed' = (deleteFailed \/ fails # {})
            /\ IF fails = {}
               THEN /\ disk' = disk \ {chunkPaths[i + 1]}
                    /\ i' = i + 1
                    /\ pc' = IF i + 1 < Len(chunkPaths) THEN "s_loop" ELSE "s_final"
                    /\ produced' = IF i + 1 < Len(chunkPaths) THEN produced
                                   ELSE Transcribed(trim(transcript'))
                    /\ UNCHANGED <<sent, ended>>
               ELSE \* unlinkSync throws: the catch block
                    /\ sent' = SseCatch(sent, m)
                    /\ pc' = "done" /\ ended' = TRUE
                    /\ UNCHANGED <<disk, i, produced>>
       \/ \E m \in ErrorMessages :
            /\ outcomes' = Append(outcomes, Outcome(i, FALSE, m))
            /\ sent' = SseCatch(sent, TranscribeAudioError(m))
            /\ produced' = Thrown(TranscribeAudioError(m))
            /\ pc' = "done" /\ ended' = TRUE
            /\ UNCHANGED <<disk, i, transcript, prevText, deleteFailed>>
    /\ UNCHANGED <<kind, outside, fileSize, duration, actualSize, processedFilePath,
                   tempFilePath, tempDir, numChunks, chunkPaths,
                   transcriptions, requests, calls, store>>

\* transcribe.js:125-126: the progress event and the start of
\* transcribeAudio(processedFilePath, '')
SseDirectCall ==
    /\ kind = "sse" /\ pc = "s_direct"
    /\ sent' = Append(sent, ProgressEvent(70, 1))
    /\ calls' = Append(calls, Call(-1, processedFilePath, <<>>))
    /\ inflight' = inflight \cup {-1}
    /\ pc' = "s_direct_wait"
    /\ UNCHANGED <<kind, outside, disk, fileSize, duration, actualSize, processedFilePath,
                   tempFilePath, tempDir, numChunks, chunkPaths, i,
                   transcriptions, transcript, prevText, requests, ended,
                   store, deleteFailed, outcomes, produced>>

\* transcribe.js:126 and 145-150
SseDirectReturn ==
    /\ kind = "sse" /\ pc = "s_direct_wait"
    /\ inflight' = inflight \ {-1}
    /\ \/ \E t \in ProviderTexts :
            /\ outcomes' = Append(outcomes, Outcome(-1, TRUE, t))
            /\ transcript' = t
            /\ produced' = Transcribed(trim(t))
            /\ pc' = "s_final"
            /\ UNCHANGED <<sent, ended>>
       \/ \E m \in ErrorMessages :
            /\ outcomes' = Append(outcomes, Outcome(-1, FALSE, m))
            /\ sent' = SseCatch(sent, TranscribeAudioError(m))
            /\ produced' = Thrown(TranscribeAudioError(m))
            /\ pc' = "done" /\ ended' = TRUE
            /\ UNCHANGED transcript
    /\ UNCHANGED <<kind, outside, disk, fileSize, duration, actualSize, processedFilePath,
                   tempFilePath, tempDir, numChunks, chunkPaths, i,
                   transcriptions, prevText, requests, calls, store,
                   deleteFailed>>

\* transcribe.js:132-135: the two unlinkSync calls; the first that the file
\* system refuses throws and the rest is skipped
SseUnlinkDisk(d, processed, uploaded, fails) ==
    IF processed # uploaded /\ processed \in fails THEN d
    ELSE IF uploaded \in fails THEN d \ ({processed} \ {uploaded})
    ELSE d \ {processed, uploaded}

\* SseFinalSent with the result sent before the deletions
SseFinalSentResultFirst(s, text, fails, m) ==
    IF fails = {}
    THEN s \o <<ProgressEvent(95, 1), FinalEvent(trim(text)), DoneEvent>>
    ELSE SseCatch(s \o <<ProgressEvent(95, 1), FinalEvent(trim(text))>>, m)

\* transcribe.js:129-147: the last progress event, the deletions, then the
\* result; a deletion that throws reaches the catch block before the result
SseFinalSent(s, text, fails, m) ==
    IF fails = {}
    THEN s \o <<ProgressEvent(95, 1), FinalEvent(trim(text)), DoneEvent>>
    ELSE SseCatch(Append(s, ProgressEvent(95, 1)), m)

\* transcribe.js:129-150: the last progress event, the deletions, the result
SseFinalize ==
    /\ kind = "sse" /\ pc = "s_final"
    /\ \E fails \in SUBSET {processedFilePath, tempFilePath}, m \in ErrorMessages :
         /\ disk' = SseUnlinkDisk(disk, processedFilePath, tempFilePath, fails)
         /\ deleteFailed' = (deleteFailed \/ fails # {})
         /\ sent' = SseFinalSent(sent, transcript, fails, m)
    /\ pc' = "done" /\ ended' = TRUE
    /\ UNCHANGED <<kind, outside, fileSize, duration, actualSize, processedFilePath,
                   tempFilePath, tempDir, numChunks, chunkPaths, i,
                   transcriptions, transcript, prevText, requests, calls,
                   inflight, store, outcomes, produced>>

(***************************************************************************)
(* The duration-only handler, transcribe.js:263-346.                       *)
(***************************************************************************)

\* transcribe.js:333-336, the catch block
DurCatchSent(s, m) == json(s, ErrorBody(500, <<"Failed to transcribe audio.">>, m))

\* transcribe.js:336-345, the finally block
DurFinallyDisk(d, tf, fails) ==
    IF tf # NoPath THEN cleanupFiles(d, <<tf>>, NoPath, fails) ELSE d

\* transcribe.js:264-279
DurParse ==
    /\ kind = "dur" /\ pc = "start"
    /\ \E req \in {"badmethod", "parseerror", "nofile", "ok"}, m \in ErrorMessages :
           CASE req = "badmethod" ->
                  /\ sent' = json(sent, ErrorBody(405, <<"Method not allowed">>, <<>>))
                  /\ produced' = Thrown(<<"Method not allowed">>)
                  /\ pc' = "done" /\ ended' = TRUE
                  /\ UNCHANGED <<disk, tempFilePath>>
             [] req = "parseerror" ->
                  /\ sent' = DurCatchSent(sent, m)
                  /\ produced' = Thrown(m)
                  /\ pc' = "done" /\ ended' = TRUE
                  /\ UNCHANGED <<disk, tempFilePath>>
             [] req = "nofile" ->
                  /\ sent' = json(sent, ErrorBody(400, <<"No audio file uploaded.">>, <<>>))
                  /\ produced' = Thrown(<<"No audio file uploaded.">>)
                  /\ pc' = "done" /\ ended' = TRUE
                  /\ UNCHANGED <<disk, tempFilePath>>
             [] req = "ok" ->
                  /\ disk' = disk \cup {UploadPath}
                  /\ tempFilePath' = UploadPath
                  /\ pc' = "d_probe"
                  /\ UNCHANGED <<sent, ended, produced>>
    /\ UNCHANGED <<kind, outside, fileSize, duration, actualSize, processedFilePath,
                   tempDir, numChunks, chunkPaths, i, transcriptions,
                   transcript, prevText, requests, calls, inflight, store,
                   deleteFailed, outcomes>>

\* transcribe.js:281-287 and 226-238: getAudioDuration rejects on an error of
\* ffprobe and on a missing or zero duration
DurProbe ==
    /\ kind = "dur" /\ pc = "d_probe"
    /\ \/ \E d \in Durations(DUR_CHUNK_DURATION, DUR_MAX_DURATION) \ {0} :
            /\ duration' = d
            /\ pc' = IF d <= DUR_MAX_DURATION THEN "d_direct" ELSE "d_mkdir"
            /\ UNCHANGED <<disk, sent, ended, deleteFailed, produced>>
       \/ \E m \in ErrorMessages, fails \in SUBSET {tempFilePath} :
            /\ sent' = DurCatchSent(sent, ProbeError(m))
            /\ produced' = Thrown(ProbeError(m))
            /\ disk' = DurFinallyDisk(disk, tempFilePath, fails)
            /\ deleteFailed' = (deleteFailed \/ fails # {})
            /\ pc' = "done" /\ ended' = TRUE
            /\ UNCHANGED duration
    /\ UNCHANGED <<kind, outside, fileSize, actualSize, processedFilePath, tempFilePath,
                   tempDir, numChunks, chunkPaths, i, transcriptions,
                   transcript, prevText, requests, calls, inflight, store,
                   outcomes>>

\* transcribe.js:290 and 245-248: transcribeSingleFile calls
\* fs.createReadStream on fs.promises, which throws before the provider is
\* called; the catch block and the finally block follow
DurDirect ==
    /\ kind = "dur" /\ pc = "d_direct"
    /\ \E fails \in SUBSET {tempFilePath} :
         /\ sent' = DurCatchSent(sent, CreateReadStreamTypeError)
         /\ produced' = Thrown(CreateReadStreamTypeError)
         /\ disk' = DurFinallyDisk(disk, tempFilePath, fails)
         /\ deleteFailed' = (deleteFailed \/ fails # {})
    /\ pc' = "done" /\ ended' = TRUE
    /\ UNCHANGED <<kind, outside, fileSize, duration, actualSize, processedFilePath,
                   tempFilePath, tempDir, numChunks, chunkPaths, i,
                   transcriptions, transcript, prevText, requests, calls,
                   inflight, store, outcomes>>

\* transcribe.js:294-297
DurMkdir ==
    /\ kind = "dur" /\ pc = "d_mkdir"
    /\ tempDir' = ChunkDir
    /\ \/ /\ disk' = disk \cup {ChunkDir}
          /\ numChunks' = NumChunks(duration, DUR_CHUNK_DURATION)
          /\ pc' = "d_chunk"
          /\ UNCHANGED <<sent, ended, deleteFailed, produced>>
       \/ \E m \in ErrorMessages, fails \in SUBSET {tempFilePath} :
            /\ sent' = DurCatchSent(sent, m)
            /\ produced' = Thrown(m)
            /\ disk' = DurFinallyDisk(disk, tempFilePath, fails)
            /\ deleteFailed' = (deleteFailed \/ fails # {})
            /\ pc' = "done" /\ ended' = TRUE
            /\ UNCHANGED numChunks
    /\ UNCHANGED <<kind, outside, fileSize, duration, actualSize, processedFilePath,
                   tempFilePath, chunkPaths, i, transcriptions, transcript,
                   prevText, requests, calls, inflight, store, outcomes>>

\* transcribe.js:300-318: the tool creates chunk i, then transcribeSingleFile
\* throws on fs.createReadStream; the catch block and the finally block
DurChunk ==
    /\ kind = "dur" /\ pc = "d_chunk" /\ i < numChunks
    /\ requests' = Append(requests,
           Request(ChunkStart(i, DUR_CHUNK_DURATION), DUR_CHUNK_DURATION, ChunkPath(i)))
    /\ \E fails \in SUBSET {tempFilePath} :
         /\ deleteFailed' = (deleteFailed \/ fails # {})
         /\ \/ /\ sent' = DurCatchSent(sent, CreateReadStreamTypeError)
               /\ produced' = Thrown(CreateReadStreamTypeError)
               /\ disk' = DurFinallyDisk(disk \cup {ChunkPath(i)}, tempFilePath, fails)
            \/ \E m \in ErrorMessages :
                 /\ sent' = DurCatchSent(sent, DurChunkFFmpegError(m))
                 /\ produced' = Thrown(DurChunkFFmpegError(m))
                 /\ disk' = DurFinallyDisk(disk, tempFilePath, fails)
    /\ pc' = "done" /\ ended' = TRUE
    /\ UNCHANGED <<kind, outside, fileSize, duration, actualSize, processedFilePath,
                   tempFilePath, tempDir, numChunks, chunkPaths, i,
                   transcriptions, transcript, prevText, calls, inflight, store,
                   outcomes>>

(***************************************************************************)
(* The client, index.js:252-257.                                           *)
(***************************************************************************)

\* handleStopTranscription: abortController.abort() ends the request that is
\* being handled; no handler listens for the close of the connection
Cancel ==
    /\ pc \notin {"start", "done"} /\ ~cancelled
    /\ cancelled' = TRUE
    /\ UNCHANGED <<inside, now, runs, tmp, upload, page>>

\* index.js:160-170, handleFileSelect with an audio file or with another file
handleFileSelect ==
    /\ page.request # "aborted"
    /\ \/ page' = [page EXCEPT !.file = TRUE, !.error = <<>>]
       \/ page' = [page EXCEPT !.error = <<"Please select an audio file">>]
    /\ UNCHANGED <<inside, cancelled, now, runs, tmp, upload>>

\* index.js:184-212, handleTranscribe up to the await of fetch
handleTranscribe ==
    /\ page.file /\ ~page.isTranscribing /\ page.request = "none"
    /\ page' = [page EXCEPT !.isTranscribing = TRUE, !.progress = 10,
                            !.transcript = <<>>, !.error = <<>>,
                            !.abortControllerRef = "controller",
                            !.request = "fetch", !.byReset = FALSE]
    /\ UNCHANGED <<inside, cancelled, now, runs, tmp, upload>>

\* index.js:214-220 and 238-249: fetch settles with a response that is ok,
\* with one that is not, or with a network error
FetchSettles ==
    /\ page.request = "fetch"
    /\ \/ page' = [page EXCEPT !.progress = 30, !.request = "json"]
       \/ \E m \in {HttpErrorMessage} \cup ErrorMessages :
            page' = [page EXCEPT !.error = m, !.isTranscribing = FALSE,
                                 !.abortControllerRef = "null", !.request = "none"]
    /\ UNCHANGED <<inside, cancelled, now, runs, tmp, upload>>

\* index.js:223-249: response.json() settles with a transcription or with
\* an error body
JsonSettles ==
    /\ page.request = "json"
    /\ \/ \E t \in ProviderTexts :
            page' = [page EXCEPT !.progress = 100, !.transcript = t,
                                 !.isTranscribing = FALSE,
                                 !.abortControllerRef = "null", !.request = "none"]
       \/ \E m \in ErrorMessages :
            page' = [page EXCEPT !.error = m, !.isTranscribing = FALSE,
                                 !.abortControllerRef = "null", !.request = "none"]
    /\ UNCHANGED <<inside, cancelled, now, runs, tmp, upload>>

\* index.js:252-257
handleStopTranscription ==
    /\ page.isTranscribing /\ page.request \in {"fetch", "json"}
    /\ page.abortControllerRef = "controller"
    /\ page' = [page EXCEPT !.request = "aborted"]
    /\ UNCHANGED <<inside, cancelled, now, runs, tmp, upload>>

\* index.js:319-344: abort what is in flight, then clear the state; the ref
\* is left as it is
handleReset ==
    /\ page.request # "aborted"
    /\ LET inFlight == page.abortControllerRef = "controller"
       IN  page' = [page EXCEPT !.file = FALSE, !.isTranscribing = FALSE,
                                !.progress = 0, !.transcript = <<>>,
                                !.error = <<>>,
                                !.request = IF inFlight THEN "aborted" ELSE @,
                                !.byReset = inFlight]
    /\ UNCHANGED <<inside, cancelled, now, runs, tmp, upload>>

\* index.js:238-249: the catch block for the AbortError and the finally
\* block of handleTranscribe, run after the handler that aborted
AbortSettles ==
    /\ page.request = "aborted"
    /\ page' = [page EXCEPT !.error = CancelledMessage, !.isTranscribing = FALSE,
                            !.abortControllerRef = "null", !.request = "none"]
    /\ UNCHANGED <<inside, cancelled, now, runs, tmp, upload>>

NextPage ==
    \/ handleFileSelect \/ handleTranscribe \/ FetchSettles \/ JsonSettles
    \/ handleStopTranscription \/ handleReset \/ AbortSettles

\* the handler of the single run stays at its start
InitPage == Init /\ kind = "sse"

SpecPage == InitPage /\ [][NextPage]_vars

(***************************************************************************)
(* Two requests side by side: the temporary paths their handlers choose.   *)
(***************************************************************************)

\* Date.now() moves on
Tick ==
    /\ now < MaxNow
    /\ now' = now + 1
    /\ UNCHANGED <<inside, cancelled, runs, tmp, upload, page>>

\* a request arrives at the event-stream or at the size+duration handler
RunStart(r) ==
    /\ runs[r].step = "idle"
    /\ \E k \in {"sse", "sizedur"} :
         runs' = [runs EXCEPT ![r].kind = k, ![r].step = "started"]
    /\ UNCHANGED <<inside, cancelled, now, tmp, upload, page>>

\* transcribe.js:86-100: the compression pass writes its output
RunCompress(r) ==
    /\ runs[r].kind = "sse" /\ runs[r].step = "started"
    /\ LET p == CompressedName(now)
       IN  /\ runs' = [runs EXCEPT ![r].step = "compressed",
                                   ![r].paths = @ \cup {p}]
           /\ tmp' = WriteFile(tmp, p, r)
    /\ UNCHANGED <<inside, cancelled, now, upload, page>>

\* transcribe.js:180-197: processChunk writes one chunk
RunChunk(r) ==
    /\ runs[r].kind = "sse" /\ runs[r].step \in {"started", "compressed", "split"}
    /\ runs[r].n < MaxChunks
    /\ LET p == SseChunkName(runs[r].n, now)
       IN  /\ runs' = [runs EXCEPT ![r].step = "split", ![r].n = @ + 1,
                                   ![r].paths = @ \cup {p}]
           /\ tmp' = WriteFile(tmp, p, r)
    /\ UNCHANGED <<inside, cancelled, now, upload, page>>

\* history.js:297-298: the chunk directory
RunMkdir(r) ==
    /\ runs[r].kind = "sizedur" /\ runs[r].step = "started"
    /\ LET p == ChunkDirName(now)
       IN  /\ runs' = [runs EXCEPT ![r].step = "mkdir", ![r].dir = p,
                                   ![r].paths = @ \cup {p}]
           /\ tmp' = MakeDir(tmp, p, r)
    /\ UNCHANGED <<inside, cancelled, now, upload, page>>

\* history.js:132-157: splitAudioIntoChunks writes one chunk in the directory
RunDirChunk(r) ==
    /\ runs[r].kind = "sizedur" /\ runs[r].step \in {"mkdir", "split"}
    /\ runs[r].n < MaxChunks
    /\ LET p == DirChunkName(runs[r].dir, runs[r].n)
       IN  /\ runs' = [runs EXCEPT ![r].step = "split", ![r].n = @ + 1,
                                   ![r].paths = @ \cup {p}]
           /\ tmp' = WriteFile(tmp, p, r)
    /\ UNCHANGED <<inside, cancelled, now, upload, page>>

\* the run ends.  transcribe.js:122 and 132-135 unlink the chunks and the
\* compressed file; history.js:352-367 deletes no chunk (the finally block
\* throws) and its rmdir succeeds on an empty directory only
RunEnd(r) ==
    /\ runs[r].step \in {"compressed", "split", "mkdir"}
    /\ tmp' = IF runs[r].kind = "sse" \/ runs[r].n = 0
              THEN Remove(tmp, runs[r].paths)
              ELSE tmp
    /\ runs' = [runs EXCEPT ![r].step = "done", ![r].paths = {}]
    /\ UNCHANGED <<inside, cancelled, now, upload, page>>

NextTwoRuns ==
    \/ Tick
    \/ \E r \in Runs :
         \/ RunStart(r) \/ RunCompress(r) \/ RunChunk(r)
         \/ RunMkdir(r) \/ RunDirChunk(r) \/ RunEnd(r)

\* the handler of the single run stays at its start
InitTwoRuns == Init /\ kind = "sse"

SpecTwoRuns == InitTwoRuns /\ [][NextTwoRuns]_vars

Next ==
    \/ HistParse \/ HistProbe \/ HistDirectCall \/ HistDirectReturn
    \/ HistMkdir \/ HistSplitChunk \/ HistChunkCall \/ HistChunkReturn
    \/ HistFinish
    \/ SseParse \/ SseCompress \/ SseProbe \/ SseSplitChunk \/ SseChunkCall
    \/ SseChunkReturn \/ SseDirectCall \/ SseDirectReturn \/ SseFinalize
    \/ DurParse \/ DurProbe \/ DurDirect \/ DurMkdir \/ DurChunk
    \/ Cancel

Spec == Init /\ [][Next]_vars

\* a step of the handler of the run; its position enables one of them at most
HandlerStep ==
    \/ HistParse \/ HistProbe \/ HistDirectCall \/ HistDirectReturn
    \/ HistMkdir \/ HistSplitChunk \/ HistChunkCall \/ HistChunkReturn
    \/ HistFinish
    \/ SseParse \/ SseCompress \/ SseProbe \/ SseSplitChunk \/ SseChunkCall
    \/ SseChunkReturn \/ SseDirectCall \/ SseDirectReturn \/ SseFinalize
    \/ DurParse \/ DurProbe \/ DurDirect \/ DurMkdir \/ DurChunk

\* the event loop runs the handler on, and every invocation of the
\* transcoding tool and every provider call comes back; the client need not
\* act
FairSpec == Spec /\ WF_vars(HandlerStep)

(***************************************************************************)
(* The claims.                                                             *)
(***************************************************************************)

\* the chunked branch of the size+duration handler has ended after a split
\* that created every chunk of the plan
HistSegmentedDone ==
    kind = "sizedur" /\ pc = "done" /\ numChunks > 0 /\ Len(chunkPaths) = numChunks

\* t is a bracketed annotation that carries the message m
IsPlaceholder(t, m) ==
    /\ Len(t) >= 2 /\ t[1] = "[" /\ t[Len(t)] = "]"
    /\ \E a \in 1..Len(t) : a + Len(m) - 1 <= Len(t) /\ SubSeq(t, a, a + Len(m) - 1) = m

\* C1: in the chunked branch of the size+duration handler, whatever calls
\* fail, every chunk of the plan is attempted in order, the run answers 200
\* with a result, the per-chunk list has one entry per chunk in index order,
\* and the entry of a failed chunk is a bracketed placeholder with the error.
C1_FailedChunksKeepTheirSlot ==
    HistSegmentedDone =>
        /\ Len(calls) = numChunks
        /\ Len(outcomes) = numChunks
        /\ Len(sent) = 1
        /\ sent[1].type = "result" /\ sent[1].status = 200
        /\ ~sent[1].chunksNull
        /\ Len(sent[1].chunks) = numChunks
        /\ \A j \in 1..numChunks :
             /\ calls[j].seg = j - 1
             /\ outcomes[j].seg = j - 1
             /\ sent[1].chunks[j].chunk = j
             /\ IF outcomes[j].ok
                THEN sent[1].chunks[j].transcription = outcomes[j].text
                ELSE IsPlaceholder(sent[1].chunks[j].transcription, outcomes[j].text)

\* a chunked run of the size+duration handler has ended with failed and
\* transcribed chunks
C1_Witness ==
    /\ HistSegmentedDone
    /\ numChunks >= 2
    /\ \E j \in 1..Len(outcomes) : ~outcomes[j].ok
    /\ \E j \in 1..Len(outcomes) : outcomes[j].ok /\ outcomes[j].text # <<>>

\* C2: at most one provider call is in flight; the chunk calls start in index
\* order, and a call starts only when every earlier call has returned or
\* failed.
C2_OneCallAtATimeInOrder ==
    /\ Cardinality(inflight) <= 1
    /\ Len(calls) - Len(outcomes) \in {0, 1}
    /\ inflight = IF Len(calls) > Len(outcomes) THEN {calls[Len(calls)].seg} ELSE {}
    /\ \A j \in 1..Len(outcomes) : outcomes[j].seg = calls[j].seg
    /\ \A j \in 1..Len(calls) : calls[j].seg >= 0 => calls[j].seg = j - 1

\* the call of a later chunk is in flight
C2_Witness ==
    /\ Len(calls) >= 2
    /\ inflight = {calls[Len(calls)].seg}
    /\ Len(outcomes) = Len(calls) - 1

\* the index in outcomes of the last call before call j that returned a text
LastOkBefore(j) ==
    LET ok == {k \in 1..(j - 1) : k <= Len(outcomes) /\ outcomes[k].ok}
    IN  IF ok = {} THEN 0 ELSE CHOOSE k \in ok : \A l \in ok : l <= k

\* C3: the context prompt of every chunk call is the bounded tail of the text
\* of the last chunk transcribed before it (none for the first); and when
\* chunk i fails after chunk i-1 was transcribed, chunk i+1 is still called
\* and the run ends with a transcript.
C3_ContextFromLastTranscribedChunk ==
    /\ \A j \in 1..Len(calls) :
         calls[j].seg >= 0 =>
            calls[j].prompt =
               IF LastOkBefore(j) = 0 THEN <<>>
               ELSE slice(outcomes[LastOkBefore(j)].text, CONTEXT_CHARS)
    /\ \A j \in 2..Len(outcomes) :
         (/\ pc = "done"
          /\ outcomes[j].seg >= 0
          /\ ~outcomes[j].ok
          /\ outcomes[j - 1].ok
          /\ j < Len(chunkPaths))
         => /\ Len(calls) > j
            /\ \E e \in 1..Len(sent) : sent[e].type = "result"

\* C4: once a run has ended and no deletion was refused, none of its
\* temporary files or directories is left.
C4_NoTemporaryPathRemains ==
    (pc = "done" /\ ~deleteFailed) => disk = {}

\* C5: splitAudioIntoChunks asks for ceil(D / C) ranges, range j from j * C
\* to min((j + 1) * C, D); they are non-empty, contiguous, start at 0 and end
\* at D, and the chunk paths come back in index order.
C5_PlanCoversTheDuration ==
    (kind = "sizedur" /\ pc \in {"transcribe", "chunk_wait", "finish"} /\ duration > 0) =>
        LET n == Len(requests)
        IN  /\ n >= 1
            /\ (n - 1) * CHUNK_DURATION < duration
            /\ duration <= n * CHUNK_DURATION
            /\ requests[1].start = 0
            /\ requests[n].start + requests[n].len = duration
            /\ \A j \in 1..n :
                 /\ requests[j].start = (j - 1) * CHUNK_DURATION
                 /\ requests[j].len > 0
                 /\ requests[j].len <= CHUNK_DURATION
            /\ \A j \in 1..(n - 1) :
                 requests[j].start + requests[j].len = requests[j + 1].start
            /\ chunkPaths = [j \in 1..n |-> ChunkPath(j - 1)]

\* a plan of several chunks whose last range is cut at the duration
C5_Witness ==
    /\ kind = "sizedur" /\ pc = "finish"
    /\ Len(requests) >= 2
    /\ requests[Len(requests)].len < CHUNK_DURATION

\* C6: after the probe the size+duration handler is in the direct branch
\* exactly when the size is at most 25 MB and the duration at most 300 s.
C6_DirectIffWithinBothCeilings ==
    kind = "sizedur" =>
        /\ pc \in {"direct", "direct_wait"} =>
              (actualSize <= 25 * 1024 * 1024 /\ duration <= 300)
        /\ pc \in {"mkdir", "split", "transcribe", "chunk_wait", "finish"} =>
              (actualSize > 25 * 1024 * 1024 \/ duration > 300)

\* a file exactly at both ceilings is in the direct branch
C6_Witness ==
    /\ kind = "sizedur" /\ pc = "direct"
    /\ actualSize = 25 * 1024 * 1024 /\ duration = 300

\* the transcoding tool failed on a chunk of the size+duration handler
HistSplitFailed ==
    /\ kind = "sizedur" /\ pc = "done"
    /\ tempDir # NoPath
    /\ Len(requests) > Len(chunkPaths)

\* C7: when the tool fails on chunk k, no provider call is made, the caller
\* receives one error that carries the chunk-creation failure, and the chunk
\* files already created and the chunk directory are removed.
C7_SplitFailureAbortsAndCleans ==
    HistSplitFailed =>
        /\ calls = <<>>
        /\ Len(sent) = 1
        /\ sent[1].type = "error"
        /\ sent[1].msg = produced.text
        /\ ~deleteFailed => \A p \in disk : ~IsChunk(p) /\ p # ChunkDir

\* C8: a refused deletion changes nothing of what the caller receives: the
\* transcript the run came to, or else the first error it came to.  The
\* chunked branch of history.js is left to C7: its finally block replaces the
\* error whether or not a deletion is refused.
C8_RefusedDeletionNeverSurfaces ==
    (pc = "done" /\ deleteFailed /\ ~(kind = "sizedur" /\ tempDir # NoPath)) =>
        \E j \in 1..Len(sent) :
            /\ sent[j].type = produced.type
            /\ IF produced.type = "result" THEN sent[j].text = produced.text
               ELSE sent[j].msg = produced.text

\* the positions of the results and errors the caller received
Terminals == {j \in 1..Len(sent) : sent[j].type \in {"result", "error"}}

\* C9: the caller receives at most one result or error, exactly one once the
\* run has ended, and after it nothing but the end-of-stream marker.
C9_OneTerminalOutcome ==
    /\ Cardinality(Terminals) <= 1
    /\ pc = "done" => Cardinality(Terminals) = 1
    /\ ended <=> pc = "done"
    /\ \A j \in Terminals : \A k \in (j + 1)..Len(sent) : sent[k].type = "done"

\* an event-stream run whose transcript was complete ended on a refused
\* deletion
C9_Witness ==
    /\ kind = "sse" /\ pc = "done" /\ deleteFailed
    /\ produced.type = "result"
    /\ sent[Len(sent)].type = "error"

\* the single provider call of the direct branch has failed
DirectCallFailed ==
    /\ pc = "done"
    /\ Len(calls) = 1 /\ calls[1].seg = -1
    /\ Len(outcomes) = 1 /\ ~outcomes[1].ok

\* C10: when the provider call of the direct branch fails, the caller
\* receives an error and no transcript, and no record is stored.
C10_DirectFailureFailsTheRun ==
    DirectCallFailed =>
        /\ \A j \in 1..Len(sent) : sent[j].type # "result"
        /\ \E j \in 1..Len(sent) : sent[j].type = "error"
        /\ store = <<>>

\* the direct call of the size+duration handler has failed
C10_Witness == DirectCallFailed /\ kind = "sizedur"

\* a step in which the probe of the upload fails and the run ends
ProbeFails == pc \in {"probe", "d_probe", "s_probe"} /\ pc' = "done"

\* C11: a step in which the probe fails ends the run with no provider call
\* made, no chunk file and no chunk directory created, and one error and no
\* transcript for the caller.
C11_ProbeFailureFailsTheRun ==
    [][ProbeFails =>
          /\ calls' = <<>> /\ outcomes' = <<>>
          /\ requests' = <<>> /\ chunkPaths' = <<>>
          /\ tempDir' = NoPath
          /\ \A p \in disk' : ~IsChunk(p) /\ p # ChunkDir
          /\ \A j \in 1..Len(sent') : sent'[j].type # "result"
          /\ Cardinality({j \in 1..Len(sent') : sent'[j].type = "error"}) = 1
          /\ store' = <<>>]_vars

\* the size+duration handler has ended on a failed probe
C11_Witness ==
    /\ kind = "sizedur" /\ pc = "done"
    /\ \E m \in ErrorMessages : produced = Thrown(ProbeError(m))
    /\ calls = <<>>

\* the size+duration handler came to a transcript and the save failed
HistSaveFailed ==
    kind = "sizedur" /\ pc = "done" /\ produced.type = "result" /\ store = <<>>

\* C12: when saveTranscription throws after a transcription that succeeded,
\* in the direct and in the chunked branch, the caller receives the 200
\* response with the transcript the run came to and nothing else.
C12_FailedSaveKeepsTheResult ==
    HistSaveFailed =>
        /\ Len(sent) = 1
        /\ sent[1].type = "result" /\ sent[1].status = 200
        /\ sent[1].text = produced.text
        /\ sent[1].chunksNull = (tempDir = NoPath)

\* a chunked run of several chunks whose save failed
C12_Witness ==
    /\ HistSaveFailed
    /\ tempDir # NoPath /\ Len(transcriptions) >= 2
    /\ produced.text # <<>>

\* C13: the file of a chunk whose transcription attempt has completed, with
\* a text or with an error, is no longer on disk (unless the file system
\* refused the deletion), so no chunk file is held while a later chunk is
\* transcribed or until the end of the run.
C13_ChunkDeletedAfterItsAttempt ==
    \A j \in 1..Len(outcomes) :
        outcomes[j].seg >= 0 =>
            (ChunkPath(outcomes[j].seg) \notin disk \/ deleteFailed)

\* C14: once the client has aborted the request, the handler starts no
\* further provider call and asks the transcoding tool for no further chunk.
C14_NoNewWorkAfterCancel ==
    [][cancelled => (calls' = calls /\ requests' = requests)]_vars

\* C15: two requests in flight never hold the same temporary path, and the
\* file at every path a request holds is the one that request wrote.
C15_RunsNeverShareAPath ==
    /\ \A r1, r2 \in Runs :
         r1 # r2 => runs[r1].paths \cap runs[r2].paths = {}
    /\ \A r \in Runs : \A p \in runs[r].paths : [path |-> p, by |-> r] \in tmp

\* the positions of the event-stream handler after the branch on the size
SseChunkedPcs == {"s_probe", "s_split", "s_loop", "s_chunk_wait"}
SseDirectPcs == {"s_direct", "s_direct_wait"}

\* C16: in the event-stream handler the compression pass is entered only
\* from the start of the run, every step of the handler leaves it, it runs
\* only for an upload larger than 25 MB, it alone writes the compressed file, and the run is in
\* the chunked branch exactly when the file that was kept (the compressed
\* output when there is one) is larger than 25 MB.
C16_CompressOnceThenDecide ==
    /\ [](kind = "sse" =>
            /\ pc = "compress" => upload.size > MAX_FILE_SIZE
            /\ CompressedPath \in disk => upload.size > MAX_FILE_SIZE
            /\ pc \in SseChunkedPcs => actualSize > MAX_FILE_SIZE
            /\ pc \in SseDirectPcs => actualSize <= MAX_FILE_SIZE
            /\ pc \in SseChunkedPcs \cup SseDirectPcs =>
                  processedFilePath =
                     IF upload.size > MAX_FILE_SIZE THEN CompressedPath ELSE UploadPath)
    /\ [][kind = "sse" =>
            /\ (pc' = "compress" /\ pc # "compress") => pc = "start"
            /\ (pc = "compress" /\ inside' # inside) => pc' # "compress"
            /\ (CompressedPath \in disk' /\ CompressedPath \notin disk) =>
                  pc = "compress"]_vars

\* an upload over the threshold whose compressed output is under it is
\* transcribed directly
C16_Witness ==
    /\ kind = "sse" /\ pc = "s_direct_wait"
    /\ fileSize > MAX_FILE_SIZE
    /\ processedFilePath = CompressedPath
    /\ actualSize <= MAX_FILE_SIZE

\* the positions in sent of the events that carry a percentage
Percentages == {j \in 1..Len(sent) : sent[j].type \in {"progress", "result"}}

\* C17: in the event-stream handler the percentages sent never decrease,
\* lie between 0 and 100, and 100 comes with the final transcript and with
\* nothing else.
C17_ProgressNeverDecreases ==
    kind = "sse" =>
        /\ \A j, k \in Percentages :
              j < k => sent[j].num * sent[k].den <= sent[k].num * sent[j].den
        /\ \A j \in Percentages :
              /\ sent[j].den > 0
              /\ 0 <= sent[j].num
              /\ sent[j].num <= 100 * sent[j].den
              /\ (sent[j].num = 100 * sent[j].den) <=> (sent[j].type = "result")

\* a compressed, chunked run of several chunks has sent its transcript
C17_Witness ==
    /\ kind = "sse" /\ pc = "done"
    /\ CompressedPath = processedFilePath
    /\ Len(outcomes) >= 2
    /\ \E j \in 1..Len(sent) : sent[j].type = "result"

\* the text that stands for chunk call j in the transcript of the
\* size+duration handler: the text returned, or the placeholder of the error
SegmentText(j) ==
    IF outcomes[j].ok THEN outcomes[j].text
    ELSE Placeholder(TranscribeFileError(outcomes[j].text))

\* the texts of the first n chunk calls with one space between neighbours
RECURSIVE Joined(_)
Joined(n) ==
    IF n = 0 THEN <<>>
    ELSE IF n = 1 THEN SegmentText(1)
    ELSE Joined(n - 1) \o <<" ">> \o SegmentText(n)

\* a chunked run has delivered a transcript
SegmentedResult ==
    /\ pc = "done"
    /\ \/ kind = "sizedur" /\ tempDir # NoPath
       \/ kind = "sse" /\ actualSize > MAX_FILE_SIZE
    /\ \E j \in 1..Len(sent) : sent[j].type = "result"

\* the transcript delivered
ResultText == sent[CHOOSE j \in 1..Len(sent) : sent[j].type = "result"].text

\* C18 as claimed: the transcript of a chunked run is the texts of its
\* chunks in index order with one separator between neighbours and nothing
\* before the first or after the last.
C18_TranscriptIsTheOrderedJoin ==
    SegmentedResult =>
        /\ \A j \in 1..Len(outcomes) : outcomes[j].seg = j - 1
        /\ ResultText = Joined(Len(outcomes))

\* C18 as amended: the same, and the event-stream handler strips the white
\* space at both ends of the joined text.
C18_OrderedJoinTrimmedInStream ==
    SegmentedResult =>
        /\ \A j \in 1..Len(outcomes) : outcomes[j].seg = j - 1
        /\ Len(outcomes) = Len(chunkPaths)
        /\ ResultText = IF kind = "sse" THEN trim(Joined(Len(outcomes)))
                        ELSE Joined(Len(outcomes))

\* a chunked run of the event-stream handler whose last text ends in a space
C18_Witness ==
    /\ SegmentedResult /\ kind = "sse"
    /\ Len(outcomes) >= 2
    /\ outcomes[1].text # <<>>
    /\ outcomes[Len(outcomes)].text = <<"b", " ">>

\* the provider call of the direct branch of the size+duration handler has
\* returned a text and the run has ended
HistDirectDone ==
    /\ kind = "sizedur" /\ pc = "done"
    /\ outcomes # <<>> /\ outcomes[1].seg = -1 /\ outcomes[1].ok

\* C19: a run of the size+duration handler in the direct branch has made at
\* most one provider call, for the uploaded file, and no chunk directory or
\* chunk file; when the call has returned, the caller receives its text as
\* it is, with null for the per-chunk list.
C19_DirectIsOneCallUnchanged ==
    /\ (kind = "sizedur" /\ pc \in {"direct", "direct_wait"}) =>
          /\ Len(calls) = (IF pc = "direct" THEN 0 ELSE 1)
          /\ requests = <<>> /\ tempDir = NoPath /\ disk = {UploadPath}
    /\ HistDirectDone =>
          /\ actualSize <= 25 * MB /\ duration <= 5 * 60
          /\ Len(calls) = 1 /\ calls[1].path = UploadPath
          /\ Len(outcomes) = 1
          /\ requests = <<>> /\ chunkPaths = <<>> /\ tempDir = NoPath
          /\ \A p \in disk : ~IsChunk(p) /\ p # ChunkDir
          /\ Len(sent) = 1
          /\ sent[1].type = "result" /\ sent[1].status = 200
          /\ sent[1].text = outcomes[1].text
          /\ sent[1].chunksNull /\ sent[1].chunks = <<>>

\* a 10 MB file of 3 minutes was transcribed directly as a text that ends in
\* a space
C19_Witness ==
    /\ HistDirectDone
    /\ actualSize = 10 * MB /\ duration = 3 * 60
    /\ outcomes[1].text = <<"b", " ">>

\* the time range of chunk j (from 1) of a file of d seconds in chunks of c
PlannedRange(j, c, d) == [start |-> (j - 1) * c, len |-> Min(j * c, d) - (j - 1) * c]

\* C20: a 120 MB upload to the event-stream handler is not refused for its
\* size, and when its audio lasts 40 minutes and the run delivers a
\* transcript, the tool was asked for the 5 ranges 0-9, 9-18, 18-27, 27-36
\* and 36-40 minutes, 5 provider calls were made in order, and the
\* transcript is the 5 texts with one separator between neighbours.
C20_FortyMinutesInFiveSegments ==
    (kind = "sse" /\ upload.size = 120 * MB) =>
        /\ \A j \in 1..Len(sent) :
              sent[j].type = "error" =>
                 sent[j].msg \notin {MaxFileSizeError, <<"File too large (max 100MB)">>}
        /\ (pc = "done" /\ duration = 40 * 60
             /\ \E j \in 1..Len(sent) : sent[j].type = "result") =>
              /\ Len(requests) = 5
              /\ \A j \in 1..5 :
                    /\ requests[j].start = PlannedRange(j, 9 * 60, 40 * 60).start
                    /\ requests[j].len = PlannedRange(j, 9 * 60, 40 * 60).len
              /\ Len(calls) = 5
              /\ \A j \in 1..5 : calls[j].seg = j - 1
              /\ ResultText = Joined(5)

\* C21: every entry of the per-chunk list of a chunked result carries its
\* index and an error field, set exactly when the call of that chunk failed.
C21_EntriesCarryAnErrorField ==
    (HistSegmentedDone /\ sent # <<>> /\ sent[1].type = "result") =>
        \A j \in 1..Len(sent[1].chunks) :
            LET e == sent[1].chunks[j]
            IN  /\ e.chunk = j
                /\ "error" \in DOMAIN e
                /\ (e.error # <<>>) <=> ~outcomes[j].ok

\* C22: the store holds at most one record of the run, written when the run
\* has ended with the transcript that was sent to the caller, and no step
\* changes or removes a record that is stored.
C22_StoredOnceAfterAssembly ==
    /\ [](/\ Len(store) <= 1
          /\ store # <<>> =>
                /\ pc = "done" /\ kind = "sizedur"
                /\ produced.type = "result"
                /\ store[1].transcript = produced.text
                /\ sent # <<>> /\ sent[1].type = "result"
                /\ sent[1].text = store[1].transcript
                /\ Len(outcomes) = Len(calls)
                /\ Len(calls) = (IF tempDir = NoPath THEN 1 ELSE numChunks))
    /\ [][/\ Len(store') >= Len(store)
          /\ SubSeq(store', 1, Len(store)) = store]_vars

\* a chunked run of several chunks has stored its transcript
C22_Witness ==
    /\ kind = "sizedur" /\ pc = "done"
    /\ tempDir # NoPath /\ numChunks >= 2
    /\ Len(store) = 1 /\ store[1].transcript # <<>>

\* 24 MB, transcribe.js:31
TwentyFourMB == 24 * MB

SizeRefusals == {MaxFileSizeError, <<"File too large (max 100MB)">>}

\* C24: in the event-stream handler a request with an upload over 100 MB
\* ends at once with an error, with no compression, no chunk and no provider
\* call; an upload of at most 100 MB is never refused for its size.
C24_OverHundredIsRefused ==
    kind = "sse" =>
        /\ (upload.size > 100 * MB /\ pc # "start") =>
              /\ pc = "done" /\ ended
              /\ Len(sent) >= 1
              /\ sent[Len(sent)].type = "error"
              /\ \A j \in 1..Len(sent) : sent[j].type # "result"
              /\ calls = <<>> /\ requests = <<>>
              /\ CompressedPath \notin disk /\ \A p \in disk : ~IsChunk(p)
        /\ upload.size <= 100 * MB =>
              \A j \in 1..Len(sent) :
                  sent[j].type = "error" => sent[j].msg \notin SizeRefusals

\* an upload of one byte over 100 MB was refused for its size, or one of
\* exactly 100 MB is being compressed
C24_Witness ==
    /\ kind = "sse"
    /\ \/ /\ upload.size = 100 * MB + 1 /\ pc = "done"
          /\ sent[Len(sent)].msg \in SizeRefusals
       \/ upload.size = 100 * MB /\ pc = "compress"

\* C25: in the event-stream and in the duration-only handler every range
\* asked of the transcoding tool lies within the duration of the audio.
C25_RangesWithinTheDuration ==
    (kind \in {"sse", "dur"} /\ duration # Undefined) =>
        \A j \in 1..Len(requests) :
            /\ 0 <= requests[j].start
            /\ requests[j].start + requests[j].len <= duration

\* C26: a success response of the size+duration handler comes after at
\* least one provider call of the run.
C26_SuccessNeedsAProviderCall ==
    (kind = "sizedur" /\ \E j \in 1..Len(sent) : sent[j].type = "result") =>
        /\ calls # <<>>
        /\ outcomes # <<>>

DurChunkedNoFailure ==
    /\ kind = "dur" /\ pc = "done"
    /\ requests # <<>>
    /\ \A m \in ErrorMessages : produced # Thrown(DurChunkFFmpegError(m))
    /\ \A j \in 1..Len(outcomes) : outcomes[j].ok

IsReset(pg) ==
    /\ ~pg.isTranscribing
    /\ pg.abortControllerRef = "null"
    /\ pg.error = <<>> /\ pg.transcript = <<>> /\ pg.progress = 0

\* C29: when the request that Reset aborted settles, the page is in the
\* reset state.
C29_ResetStateSurvivesTheAbort ==
    [][(page.request = "aborted" /\ page.byReset /\ page'.request = "none")
          => IsReset(page')]_vars

=============================================================================
